---- MODULE Spec2Model ----
(***************************************************************************)
(* Model of JPTextNormTF/core.py, class DateNormalizer: the kanji numeral  *)
(* converter (parse_small, kanji_to_int, normalize_number) and the date    *)
(* rewriter (replace_dates, normalize).                                    *)
(*                                                                         *)
(* A Python str is a sequence of characters.  A character is written here  *)
(* by an ASCII name:                                                       *)
(*   "0".."9"            ASCII digits                                      *)
(*   "F0".."F9"          full-width digits (U+FF10..U+FF19)                *)
(*   "zero" "maru"       the two zero glyphs of KANJI_NUM                  *)
(*   "ichi" .. "kyu"     kanji digits 1..9                                 *)
(*   "ju" "hyaku" "sen"  small units; "man" "oku" "cho" large units        *)
(*   "gan"               the era-year-1 token                              *)
(*   "nen" "gatsu" "nichi" "matsu"   year, month, day, end-of markers      *)
(*   "mei" "ji" "tai" "shou" "sho" "wa" "hei" "sei" "rei"  era name kanji  *)
(*   "R" "H" "S" "T" "M" "." "/" "-"   themselves                          *)
(*   "x"                 a character no table or pattern mentions          *)
(*   "sup2"              SUPERSCRIPT TWO: str.isdigit() is True, the regex *)
(*                       class \d does not match it, int() rejects it      *)
(***************************************************************************)
EXTENDS Integers, Sequences, FiniteSets, TLC

VARIABLES
    input,      \* the argument of the current call of normalize
    text,       \* the local variable text of normalize / replace_dates
    origin,     \* history: for each character of text, the pass that wrote it (0: the caller)
    pc,         \* position of the call of normalize
    calls,      \* number of calls of normalize started so far
    prev,       \* the value returned by the previous call of normalize
    reps,       \* history: the matches of the pass that ran last, with their replacements
    rematch,    \* history: a pass of this call matched characters written by an earlier pass
    tok,        \* the argument of normalize_number
    numOut,     \* the value normalize_number returned
    npc         \* position of the call of normalize_number

vars == <<input, text, origin, pc, calls, prev, reps, rematch, tok, numOut, npc>>

textVars == <<input, text, origin, pc, calls, prev, reps, rematch>>
numVars == <<tok, numOut, npc>>

-----------------------------------------------------------------------------
(* Bounds of the model *)

\* longest token handed to normalize_number
MaxTokLen == 3

\* number of successive calls of normalize (the second is fed the first's result)
MaxCalls == 2

-----------------------------------------------------------------------------
(* Characters and lookup tables *)

AsciiDigits == {"0", "1", "2", "3", "4", "5", "6", "7", "8", "9"}
FwDigits == {"F0", "F1", "F2", "F3", "F4", "F5", "F6", "F7", "F8", "F9"}

KANJI_NUM ==
    ("zero" :> 0) @@ ("maru" :> 0) @@ ("ichi" :> 1) @@ ("ni" :> 2) @@ ("san" :> 3)
    @@ ("shi" :> 4) @@ ("go" :> 5) @@ ("roku" :> 6) @@ ("nana" :> 7)
    @@ ("hachi" :> 8) @@ ("kyu" :> 9)

UNIT_SMALL == ("ju" :> 10) @@ ("hyaku" :> 100) @@ ("sen" :> 1000)

UNIT_LARGE_KEYS == {"man", "oku", "cho"}

\* 10**12 does not fit a TLC integer: no input of the model contains "cho"
UNIT_LARGE(ch) ==
    CASE ch = "man" -> 10000
      [] ch = "oku" -> 100000000
      [] ch = "cho" -> 1000000 * 1000000

ERA_NAMES ==
    {<<"rei", "wa">>, <<"hei", "sei">>, <<"sho", "wa">>, <<"tai", "shou">>, <<"mei", "ji">>}

ERA_MAP(era) ==
    CASE era = <<"rei", "wa">> -> 2019
      [] era = <<"hei", "sei">> -> 1989
      [] era = <<"sho", "wa">> -> 1926
      [] era = <<"tai", "shou">> -> 1912
      [] era = <<"mei", "ji">> -> 1868

ERA_ABBR_MAP == ("R" :> 2019) @@ ("H" :> 1989) @@ ("S" :> 1926) @@ ("T" :> 1912) @@ ("M" :> 1868)

\* the value int() gives a decimal digit character (Unicode category Nd)
DigitVal ==
    ("0" :> 0) @@ ("1" :> 1) @@ ("2" :> 2) @@ ("3" :> 3) @@ ("4" :> 4)
    @@ ("5" :> 5) @@ ("6" :> 6) @@ ("7" :> 7) @@ ("8" :> 8) @@ ("9" :> 9)
    @@ ("F0" :> 0) @@ ("F1" :> 1) @@ ("F2" :> 2) @@ ("F3" :> 3) @@ ("F4" :> 4)
    @@ ("F5" :> 5) @@ ("F6" :> 6) @@ ("F7" :> 7) @@ ("F8" :> 8) @@ ("F9" :> 9)

\* str.translate(FW_MAP) on one character
FW_MAP(ch) ==
    CASE ch = "F0" -> "0" [] ch = "F1" -> "1" [] ch = "F2" -> "2" [] ch = "F3" -> "3"
      [] ch = "F4" -> "4" [] ch = "F5" -> "5" [] ch = "F6" -> "6" [] ch = "F7" -> "7"
      [] ch = "F8" -> "8" [] ch = "F9" -> "9" [] OTHER -> ch

\* the regex class \d (re.UNICODE): decimal digits; the decimal digits of other
\* scripts behave as the full-width ones and are not among the model's characters
ReDigit == AsciiDigits \cup FwDigits

\* str.isdigit(): decimal digits and the other digit characters
IsDigit(ch) == ch \in ReDigit \cup {"sup2"}

-----------------------------------------------------------------------------
(* Python built-ins on strings and integers *)

\* int(s) for a non-empty string of decimal digits (the model's inputs stay far
\* below the length at which int() refuses a string)
RECURSIVE IntOf(_)
IntOf(s) ==
    IF s = <<>> THEN 0
    ELSE IntOf(SubSeq(s, 1, Len(s) - 1)) * 10 + DigitVal[s[Len(s)]]

\* int(s) raises ValueError
IntRaises(s) == s = <<>> \/ \E i \in 1..Len(s) : s[i] \notin DOMAIN DigitVal

\* str(n) for n >= 0
RECURSIVE StrOf(_)
StrOf(n) ==
    LET d == CHOOSE c \in AsciiDigits : DigitVal[c] = n % 10
    IN  IF n < 10 THEN <<d>> ELSE Append(StrOf(n \div 10), d)

\* the format specification 0<w>d of an f-string, for n >= 0
RECURSIVE ZeroPad(_, _)
ZeroPad(s, w) == IF Len(s) >= w THEN s ELSE ZeroPad(<<"0">> \o s, w)

\* FormatD with the zero fill forgotten ({n:4d} read as digits only)
FormatD_unpadded(n, w) == StrOf(n)

FormatD(n, w) == ZeroPad(StrOf(n), w)

-----------------------------------------------------------------------------
(* DateNormalizer.parse_small *)

RECURSIVE parse_small_loop(_, _, _, _)
parse_small_loop(s, i, total, num) ==
    IF i > Len(s) THEN total + num
    ELSE IF s[i] \in DOMAIN KANJI_NUM
         THEN parse_small_loop(s, i + 1, total, KANJI_NUM[s[i]])
    ELSE IF s[i] \in DOMAIN UNIT_SMALL
         THEN parse_small_loop(s, i + 1,
                  total + (IF num = 0 THEN 1 ELSE num) * UNIT_SMALL[s[i]], 0)
    ELSE parse_small_loop(s, i + 1, total, num)

parse_small(s) == parse_small_loop(s, 1, 0, 0)

(* DateNormalizer.kanji_to_int *)

has_unit(s) ==
    \E i \in 1..Len(s) : s[i] \in DOMAIN UNIT_SMALL \/ s[i] \in UNIT_LARGE_KEYS

\* the loop of the branch with units
RECURSIVE kanji_units_loop(_, _, _, _)
kanji_units_loop(s, i, total, current) ==
    IF i > Len(s) THEN total + parse_small(current)
    ELSE IF s[i] \in UNIT_LARGE_KEYS
         THEN LET val == parse_small(current)
              IN  kanji_units_loop(s, i + 1,
                      total + (IF val = 0 THEN 1 ELSE val) * UNIT_LARGE(s[i]), <<>>)
    ELSE kanji_units_loop(s, i + 1, total, Append(current, s[i]))

\* the list digits of the branch without units, joined
RECURSIVE kanji_digits(_)
kanji_digits(s) ==
    IF s = <<>> THEN <<>>
    ELSE IF Head(s) \in DOMAIN KANJI_NUM
         THEN StrOf(KANJI_NUM[Head(s)]) \o kanji_digits(Tail(s))
    ELSE IF IsDigit(Head(s))
         THEN <<Head(s)>> \o kanji_digits(Tail(s))
    ELSE kanji_digits(Tail(s))

\* kanji_to_int ends in ValueError
kanji_to_int_raises(s) ==
    /\ s # <<>>
    /\ ~has_unit(s)
    /\ kanji_digits(s) # <<>>
    /\ IntRaises(kanji_digits(s))

\* the value kanji_to_int returns
kanji_to_int(s) ==
    IF s = <<>> THEN 0
    ELSE IF has_unit(s) THEN kanji_units_loop(s, 1, 0, <<>>)
    ELSE IF kanji_digits(s) # <<>> THEN IntOf(kanji_digits(s))
    ELSE 0

(* DateNormalizer.normalize_number *)

\* re.fullmatch(r"\d+", s)
all_digits(s) == s # <<>> /\ \A i \in 1..Len(s) : s[i] \in ReDigit

normalize_number_raises(s) ==
    /\ s # <<"gan">>
    /\ ~all_digits(s)
    /\ kanji_to_int_raises(s)

normalize_number(s) ==
    IF s = <<"gan">> THEN 1
    ELSE IF all_digits(s) THEN IntOf(s)
    ELSE kanji_to_int(s)

-----------------------------------------------------------------------------
(* Inputs of normalize_number *)

TokChars ==
    {"0", "2", "F3", "maru", "ichi", "ni", "san", "ju", "hyaku", "sen", "man",
     "gan", "x", "sup2"}

RECURSIVE SeqsUpTo(_, _)
SeqsUpTo(S, n) ==
    IF n = 0 THEN {<<>>}
    ELSE LET shorter == SeqsUpTo(S, n - 1)
         IN  shorter \cup {Append(s, c) : s \in shorter, c \in S}

ExtraTokens ==
    {<<"oku">>, <<"ni", "oku">>, <<"zero", "hyaku">>,
     <<"san", "man", "ni", "sen", "ichi">>,
     <<"ni", "hyaku", "san", "ju", "shi">>,
     <<"ni", "maru", "ni", "san">>}

Tokens == SeqsUpTo(TokChars, MaxTokLen) \cup ExtraTokens

-----------------------------------------------------------------------------
(* normalize_number as a call *)

InitNum ==
    /\ tok \in Tokens
    /\ numOut = 0
    /\ npc = "called"
    /\ input = <<>> /\ text = <<>> /\ origin = <<>> /\ pc = "idle"
    /\ calls = 0 /\ prev = <<>> /\ reps = <<>> /\ rematch = FALSE

NumberReturns ==
    /\ npc = "called"
    /\ ~normalize_number_raises(tok)
    /\ numOut' = normalize_number(tok)
    /\ npc' = "returned"
    /\ UNCHANGED <<tok, textVars>>

NumberRaises ==
    /\ npc = "called"
    /\ normalize_number_raises(tok)
    /\ npc' = "raised"
    /\ UNCHANGED <<tok, numOut, textVars>>

NextNum == NumberReturns \/ NumberRaises

SpecNum == InitNum /\ [][NextNum]_vars

-----------------------------------------------------------------------------
(* The regular expressions of replace_dates, read by a backtracking matcher *)
(* as module re does: quantifiers greedy, alternatives in order, the        *)
(* leftmost match first, matches of one sub() not overlapping.              *)

\* pattern items
Cls(S, lo, hi) == [k |-> "cls", set |-> S, lo |-> lo, hi |-> hi]   \* [S]{lo,hi}
Plus(S) == [k |-> "cls", set |-> S, lo |-> 1, hi |-> -1]            \* [S]+
Lit(ch) == Cls({ch}, 1, 1)
Open == [k |-> "open"]                                               \* (
Close == [k |-> "close"]                                             \* )
Alt(alts) == [k |-> "alt", alts |-> alts]                            \* a|b|...

NoMatch == [ok |-> FALSE, end |-> 0, marks |-> <<>>]

\* number of consecutive characters of S at pos, at most hi (hi = -1: no limit)
RECURSIVE RunLen(_, _, _, _)
RunLen(txt, pos, S, hi) ==
    IF hi = 0 \/ pos > Len(txt) \/ txt[pos] \notin S THEN 0
    ELSE 1 + RunLen(txt, pos + 1, S, IF hi = -1 THEN -1 ELSE hi - 1)

RECURSIVE MatchAt(_, _, _)
RECURSIVE TryCount(_, _, _, _, _)
RECURSIVE TryAlts(_, _, _, _, _)

\* the items matched at pos: where the match ends and where each ( and ) fell
MatchAt(items, txt, pos) ==
    IF items = <<>> THEN [ok |-> TRUE, end |-> pos, marks |-> <<>>]
    ELSE LET it == Head(items)
             rest == Tail(items)
         IN  CASE it.k \in {"open", "close"} ->
                    LET r == MatchAt(rest, txt, pos)
                    IN  IF r.ok THEN [r EXCEPT !.marks = <<pos>> \o r.marks] ELSE r
               [] it.k = "cls" ->
                    TryCount(it, rest, txt, pos, RunLen(txt, pos, it.set, it.hi))
               [] it.k = "alt" ->
                    TryAlts(it.alts, 1, rest, txt, pos)

\* greedy repetition: the longest count first, giving back one at a time
TryCount(it, rest, txt, pos, n) ==
    IF n < it.lo THEN NoMatch
    ELSE LET r == MatchAt(rest, txt, pos + n)
         IN  IF r.ok THEN r ELSE TryCount(it, rest, txt, pos, n - 1)

TryAlts(alts, j, rest, txt, pos) ==
    IF j > Len(alts) THEN NoMatch
    ELSE LET r == MatchAt(alts[j] \o rest, txt, pos)
         IN  IF r.ok THEN r ELSE TryAlts(alts, j + 1, rest, txt, pos)

\* the matches of Pattern.sub / re.sub over txt, from pos on, left to right
RECURSIVE FindAll(_, _, _)
FindAll(pat, txt, pos) ==
    IF pos > Len(txt) THEN <<>>
    ELSE LET r == MatchAt(pat, txt, pos)
         IN  IF r.ok
             THEN <<[start |-> pos, end |-> r.end, marks |-> r.marks]>>
                  \o FindAll(pat, txt, r.end)
             ELSE FindAll(pat, txt, pos + 1)

\* m.groups()[g - 1]
Group(txt, m, g) == SubSeq(txt, m.marks[2 * g - 1], m.marks[2 * g] - 1)

\* Splice losing the text that follows the last match
RECURSIVE Splice_cut(_, _, _, _, _)
Splice_cut(txt, ms, outs, i, pos) ==
    IF i > Len(ms) THEN <<>>
    ELSE SubSeq(txt, pos, ms[i].start - 1) \o outs[i]
         \o Splice_cut(txt, ms, outs, i + 1, ms[i].end)

\* txt with each match ms[i] replaced by outs[i]
RECURSIVE Splice(_, _, _, _, _)
Splice(txt, ms, outs, i, pos) ==
    IF i > Len(ms) THEN SubSeq(txt, pos, Len(txt))
    ELSE SubSeq(txt, pos, ms[i].start - 1) \o outs[i]
         \o Splice(txt, ms, outs, i + 1, ms[i].end)

kanji_num_chars ==
    {"gan"} \cup ReDigit
    \cup {"ichi", "ni", "san", "shi", "go", "roku", "nana", "hachi", "kyu",
          "ju", "hyaku", "maru"}

\* (末日|[kanji_num_chars]+日)
DayGroup ==
    <<Open,
      Alt(<<  <<Lit("matsu"), Lit("nichi")>>,
              <<Plus(kanji_num_chars), Lit("nichi")>>  >>),
      Close>>

EraPattern ==
    <<Open,
      Alt(<<  <<Lit("mei"), Lit("ji")>>, <<Lit("tai"), Lit("shou")>>,
              <<Lit("sho"), Lit("wa")>>, <<Lit("hei"), Lit("sei")>>,
              <<Lit("rei"), Lit("wa")>>  >>),
      Close,
      Open, Plus(kanji_num_chars), Close, Lit("nen"),
      Open, Plus(kanji_num_chars), Close, Lit("gatsu")>>
    \o DayGroup

SeirekiYearChars ==
    FwDigits \cup ReDigit
    \cup {"maru", "ichi", "ni", "san", "shi", "go", "roku", "nana", "hachi", "kyu",
          "ju", "hyaku", "sen"}

SeirekiPattern ==
    <<Open, Cls(SeirekiYearChars, 2, 4), Close, Lit("nen"),
      Open, Plus(kanji_num_chars), Close, Lit("gatsu")>>
    \o DayGroup

AbbrPattern ==
    <<Open, Cls({"R", "H", "S", "T", "M"}, 1, 1), Close,
      Open, Plus({"gan"} \cup ReDigit), Close,
      Cls({"nen", ".", "/"}, 1, 1),
      Open, Cls(ReDigit, 1, 2), Close,
      Cls({"gatsu", ".", "/"}, 1, 1),
      Open,
      Alt(<<  <<Lit("matsu"), Lit("nichi")>>,  <<Cls(ReDigit, 1, 2)>>  >>),
      Close,
      Cls({"nichi"}, 0, 1)>>

DelimPattern ==
    <<Open, Cls(ReDigit, 4, 4), Close, Cls({".", "/"}, 1, 1),
      Open, Cls(ReDigit, 1, 2), Close, Cls({".", "/"}, 1, 1),
      Open, Cls(ReDigit, 1, 2), Close>>

-----------------------------------------------------------------------------
(* calendar.monthrange(year, month)[1], called by _make_repl *)

\* isleap without the century rule
isleap_julian(year) == year % 4 = 0

isleap(year) == year % 4 = 0 /\ (year % 100 # 0 \/ year % 400 = 0)

mdays == <<31, 28, 31, 30, 31, 30, 31, 31, 30, 31, 30, 31>>

\* monthrange raises IllegalMonthError
monthrange_raises(year, month) == ~(1 <= month /\ month <= 12)

monthrange_days(year, month) ==
    mdays[month] + (IF month = 2 /\ isleap(year) THEN 1 ELSE 0)

(* replace_dates._make_repl; era_base = 0 stands for None *)

\* make_repl_year counting era years from 0
make_repl_year_from0(era_year, era_base) ==
    IF era_base # 0 THEN era_base + normalize_number(era_year)
    ELSE normalize_number(era_year)

make_repl_year(era_year, era_base) ==
    IF era_base # 0 THEN era_base + normalize_number(era_year) - 1
    ELSE normalize_number(era_year)

make_repl_raises(era_year, month, day_str, era_base) ==
    /\ day_str = <<"matsu", "nichi">>
    /\ monthrange_raises(make_repl_year(era_year, era_base), normalize_number(month))

make_repl_day(era_year, month, day_str, era_base) ==
    IF day_str = <<"matsu", "nichi">>
    THEN monthrange_days(make_repl_year(era_year, era_base), normalize_number(month))
    ELSE normalize_number(SubSeq(day_str, 1, Len(day_str) - 1))

FormatDate(year, month, day) ==
    FormatD(year, 4) \o <<"-">> \o FormatD(month, 2) \o <<"-">> \o FormatD(day, 2)

make_repl(era_year, month, day_str, era_base) ==
    FormatDate(make_repl_year(era_year, era_base),
               normalize_number(month),
               make_repl_day(era_year, month, day_str, era_base))

-----------------------------------------------------------------------------
(* The four substitution passes of replace_dates.  A pass is described by  *)
(* the captured groups of each of its matches: gs[i] for match ms[i].       *)

\* era_repl: era, y, mth, d = m.groups()
era_groups(txt, m) ==
    [era |-> Group(txt, m, 1), base |-> ERA_MAP(Group(txt, m, 1)),
     y |-> Group(txt, m, 2), mth |-> Group(txt, m, 3), d |-> Group(txt, m, 4)]

\* seireki_repl: y, mth, d = m.groups(); no era_base
seireki_groups(txt, m) ==
    [era |-> <<>>, base |-> 0,
     y |-> Group(txt, m, 1), mth |-> Group(txt, m, 2), d |-> Group(txt, m, 3)]

\* abbr_repl: era_abbr, y, mth, d = m.groups()
abbr_groups(txt, m) ==
    [era |-> Group(txt, m, 1), base |-> ERA_ABBR_MAP[Group(txt, m, 1)[1]],
     y |-> Group(txt, m, 2), mth |-> Group(txt, m, 3), d |-> Group(txt, m, 4)]

\* the lambda of the delimiter pass: m[1], m[2], m[3]
delim_groups(txt, m) ==
    [era |-> <<>>, base |-> 0,
     y |-> Group(txt, m, 1), mth |-> Group(txt, m, 2), d |-> Group(txt, m, 3)]

delim_repl(g) == FormatDate(IntOf(g.y), IntOf(g.mth), IntOf(g.d))

repl_raises(g) == make_repl_raises(g.y, g.mth, g.d, g.base)
repl(g) == make_repl(g.y, g.mth, g.d, g.base)

\* some replacement function call of the pass raises: sub() raises
PassRaises(gs) == \E i \in DOMAIN gs : repl_raises(gs[i])

\* text after sub()
Substituted(txt, ms, outs) == Splice(txt, ms, outs, 1, 1)

\* origin after sub(): the replacements are written by pass n
Written(org, ms, outs, n) ==
    Splice(org, ms, [i \in DOMAIN outs |-> [j \in 1..Len(outs[i]) |-> n]], 1, 1)

\* a match of this pass covers a character an earlier pass wrote
Covers(org, ms) ==
    \E i \in DOMAIN ms : \E p \in ms[i].start..(ms[i].end - 1) : org[p] # 0

\* history record of the pass
Record(n, ms, gs, outs) ==
    [i \in DOMAIN ms |->
        [pass |-> n, start |-> ms[i].start, end |-> ms[i].end, era |-> gs[i].era,
         base |-> gs[i].base, y |-> gs[i].y, mth |-> gs[i].mth, d |-> gs[i].d,
         out |-> outs[i]]]

\* one sub() with _make_repl behind the replacement function, returning
PassReturns(from, to, n, ms, gs) ==
    /\ pc = from
    /\ ~PassRaises(gs)
    /\ LET outs == [i \in DOMAIN gs |-> repl(gs[i])]
       IN  /\ text' = Substituted(text, ms, outs)
           /\ origin' = Written(origin, ms, outs, n)
           /\ reps' = Record(n, ms, gs, outs)
    /\ rematch' = (rematch \/ Covers(origin, ms))
    /\ pc' = to
    /\ UNCHANGED <<input, calls, prev, numVars>>

\* the same sub(), ending in the exception of monthrange
PassFails(from, ms, gs) ==
    /\ pc = from
    /\ PassRaises(gs)
    /\ pc' = "raised"
    /\ UNCHANGED <<input, text, origin, calls, prev, reps, rematch, numVars>>

EraMatches == FindAll(EraPattern, text, 1)
EraGroups == [i \in DOMAIN EraMatches |-> era_groups(text, EraMatches[i])]
SeirekiMatches == FindAll(SeirekiPattern, text, 1)
SeirekiGroups == [i \in DOMAIN SeirekiMatches |-> seireki_groups(text, SeirekiMatches[i])]
AbbrMatches == FindAll(AbbrPattern, text, 1)
AbbrGroups == [i \in DOMAIN AbbrMatches |-> abbr_groups(text, AbbrMatches[i])]
DelimMatches == FindAll(DelimPattern, text, 1)
DelimGroups == [i \in DOMAIN DelimMatches |-> delim_groups(text, DelimMatches[i])]

\* normalize: text = text.translate(cls.FW_MAP)
Fold ==
    /\ pc = "called"
    /\ text' = [i \in DOMAIN text |-> FW_MAP(text[i])]
    /\ pc' = "folded"
    /\ UNCHANGED <<input, origin, calls, prev, reps, rematch, numVars>>

EraPass == PassReturns("folded", "era", 1, EraMatches, EraGroups)
EraPassRaises == PassFails("folded", EraMatches, EraGroups)

SeirekiPass == PassReturns("era", "seireki", 2, SeirekiMatches, SeirekiGroups)
SeirekiPassRaises == PassFails("era", SeirekiMatches, SeirekiGroups)

AbbrPass == PassReturns("seireki", "abbr", 3, AbbrMatches, AbbrGroups)
AbbrPassRaises == PassFails("seireki", AbbrMatches, AbbrGroups)

\* the delimiter pass, then return text
DelimPass ==
    /\ pc = "abbr"
    /\ LET outs == [i \in DOMAIN DelimGroups |-> delim_repl(DelimGroups[i])]
       IN  /\ text' = Substituted(text, DelimMatches, outs)
           /\ origin' = Written(origin, DelimMatches, outs, 4)
           /\ reps' = Record(4, DelimMatches, DelimGroups, outs)
    /\ rematch' = (rematch \/ Covers(origin, DelimMatches))
    /\ pc' = "done"
    /\ UNCHANGED <<input, calls, prev, numVars>>

\* the caller hands the returned text to normalize once more
CallAgain ==
    /\ pc = "done"
    /\ calls < MaxCalls
    /\ input' = text
    /\ text' = text
    /\ origin' = [i \in DOMAIN text |-> 0]
    /\ prev' = text
    /\ calls' = calls + 1
    /\ reps' = <<>>
    /\ rematch' = FALSE
    /\ pc' = "called"
    /\ UNCHANGED numVars

-----------------------------------------------------------------------------
(* Inputs of normalize *)

\* longest run of filler characters put in front of a date expression
MaxPad == 1

RECURSIVE Filler(_)
Filler(n) == IF n = 0 THEN <<>> ELSE <<"x">> \o Filler(n - 1)

EraYearNums ==
    {<<"gan">>, <<"ichi">>, <<"go">>, <<"6">>, <<"1", "2">>, <<"ju", "ni">>, <<"3", "3">>,
     <<"9", "9", "9", "9", "9">>}

MonthNums ==
    {<<"ni">>, <<"2">>, <<"shi">>, <<"1", "2">>, <<"ju", "san">>, <<"maru">>, <<"hyaku">>}

DayToks ==
    {<<"matsu", "nichi">>, <<"ichi", "nichi">>, <<"2", "nichi">>,
     <<"ni", "ju", "kyu", "nichi">>}

EraTexts ==
    {e \o y \o <<"nen">> \o m \o <<"gatsu">> \o d :
        e \in ERA_NAMES, y \in EraYearNums, m \in MonthNums, d \in DayToks}

SeirekiYearNums ==
    {<<"ni", "maru", "ni", "shi">>, <<"2", "0", "2", "3">>, <<"sen", "kyu", "hyaku">>,
     <<"2", "0", "0", "0">>, <<"9", "9">>, <<"maru", "maru">>}

SeirekiTexts ==
    {y \o <<"nen">> \o m \o <<"gatsu">> \o d :
        y \in SeirekiYearNums, m \in MonthNums, d \in DayToks}

AbbrLetters == {"R", "H", "S", "T", "M"}
AbbrYearNums == {<<"5">>, <<"gan">>, <<"1", "2">>}
AbbrSeps == {<<"nen", "gatsu">>, <<".", ".">>, <<"/", "/">>}
AbbrMonthNums == {<<"2">>, <<"1", "2">>, <<"1", "3">>}
AbbrDayNums == {<<"2">>, <<"1", "2">>, <<"matsu", "nichi">>}
AbbrEnds == {<<>>, <<"nichi">>}

AbbrText(l, y, sp, m, d, e) == <<l>> \o y \o <<sp[1]>> \o m \o <<sp[2]>> \o d \o e

AbbrTexts ==
    {AbbrText(l, y, sp, m, d, e) :
        l \in AbbrLetters, y \in AbbrYearNums, sp \in AbbrSeps,
        m \in AbbrMonthNums, d \in AbbrDayNums, e \in AbbrEnds}

DelimTexts ==
    {y \o <<sp[1]>> \o m \o <<sp[2]>> \o d :
        y \in {<<"2", "0", "2", "3">>, <<"0", "0", "0", "1">>},
        sp \in {<<"/", "/">>, <<".", ".">>, <<"/", ".">>},
        m \in {<<"3">>, <<"1", "2">>}, d \in {<<"2">>, <<"3", "1">>}}

\* texts without a date expression
PlainTexts ==
    {<<>>, <<"x">>, <<"x", "x">>, <<"F1", "F2", "F3">>, <<"x", "F2", "x">>,
     <<"2", "0", "2", "3", "-", "0", "3", "-", "0", "2">>,
     <<"rei", "wa", "go", "nen">>, <<"R", "5", ".", "3">>}

Reiwa5_3_2 == <<"rei", "wa", "5", "nen", "3", "gatsu", "2", "nichi">>

\* a date expression next to the tail of another, two expressions, full-width digits
MixedTexts ==
    {Reiwa5_3_2 \o <<"nen", "3", "gatsu", "4", "nichi">>,
     Reiwa5_3_2 \o <<"1", "2", "/", "3", "/", "4">>,
     <<"2", "0", "2", "3", "/", "3", "/", "2", "0", "2", "3", "/", "3", "/", "2">>,
     <<"R", "1", "2", "nen", "3", "gatsu", "2", "nichi">>,
     <<"R", "1", "2", "nen", "2", "gatsu", "matsu", "nichi">>,
     <<"F1", "x", "F2", "F0", "F2", "F3", "/", "F3", "/", "F2", "x", "F9">>,
     Reiwa5_3_2 \o <<"x">> \o <<"2", "0", "2", "3", ".", "3", ".", "2">> \o <<"x", "-">>,
     <<"hei", "sei", "gan", "nen", "shi", "gatsu", "ichi", "nichi">>,
     <<"x", "sho", "wa", "F6", "F4", "nen", "F1", "F0", "gatsu", "F1", "F0", "nichi", "x">>,
     <<"rei", "wa", "go", "nen", "san", "gatsu", "ni", "nichi">>}

DateTexts == EraTexts \cup SeirekiTexts \cup AbbrTexts \cup DelimTexts

Inputs ==
    PlainTexts \cup MixedTexts
    \cup {Filler(n) \o t : n \in 0..MaxPad, t \in DateTexts}

-----------------------------------------------------------------------------
(* normalize as a call *)

Init ==
    /\ input \in Inputs
    /\ text = input
    /\ origin = [i \in DOMAIN input |-> 0]
    /\ pc = "called"
    /\ calls = 1
    /\ prev = <<>>
    /\ reps = <<>>
    /\ rematch = FALSE
    /\ tok = <<>> /\ numOut = 0 /\ npc = "idle"

Next ==
    \/ Fold
    \/ EraPass
    \/ EraPassRaises
    \/ SeirekiPass
    \/ SeirekiPassRaises
    \/ AbbrPass
    \/ AbbrPassRaises
    \/ DelimPass
    \/ CallAgain

Spec == Init /\ [][Next]_vars

-----------------------------------------------------------------------------
(* Vocabulary of the properties *)

MatsuNichi == <<"matsu", "nichi">>

IsAsciiDigits(s) == \A i \in 1..Len(s) : s[i] \in AsciiDigits

\* the fields of a string between its hyphens
RECURSIVE Fields(_)
Fields(s) ==
    IF \A i \in 1..Len(s) : s[i] # "-" THEN <<s>>
    ELSE LET j == CHOOSE i \in 1..Len(s) :
                     s[i] = "-" /\ \A h \in 1..(i - 1) : s[h] # "-"
         IN  <<SubSeq(s, 1, j - 1)>> \o Fields(SubSeq(s, j + 1, Len(s)))

\* a full-width digit read as the ASCII digit of the same value
HalfWidth(ch) ==
    IF ch \in FwDigits THEN CHOOSE c \in AsciiDigits : DigitVal[c] = DigitVal[ch] ELSE ch

HalfWidthText(s) == [i \in DOMAIN s |-> HalfWidth(s[i])]

\* the characters of txt that no pass wrote, in order
RECURSIVE Kept(_, _)
Kept(txt, org) ==
    IF txt = <<>> THEN <<>>
    ELSE (IF Head(org) = 0 THEN <<Head(txt)>> ELSE <<>>) \o Kept(Tail(txt), Tail(org))

\* the characters of s that belong to S, in order
RECURSIVE Only(_, _)
Only(s, S) ==
    IF s = <<>> THEN <<>>
    ELSE (IF Head(s) \in S THEN <<Head(s)>> ELSE <<>>) \o Only(Tail(s), S)

\* a is b with some characters left out
RECURSIVE IsSubseq(_, _)
IsSubseq(a, b) ==
    IF a = <<>> THEN TRUE
    ELSE IF b = <<>> THEN FALSE
    ELSE IF Head(a) = Head(b) THEN IsSubseq(Tail(a), Tail(b))
    ELSE IsSubseq(a, Tail(b))

NothingWritten == \A i \in DOMAIN origin : origin[i] = 0

\* characters that occur in no class and no literal of the four patterns
InertChars == {"x", "-", "zero", "sup2"}

\* the position of normalize right after pass n
PcAfter(n) == CASE n = 1 -> "era" [] n = 2 -> "seireki" [] n = 3 -> "abbr" [] n = 4 -> "done"

\* the first replacement of the pass that just ran stands in text where its match began
FirstInText ==
    (reps # <<>> /\ pc = PcAfter(reps[1].pass)) =>
        SubSeq(text, reps[1].start, reps[1].start + Len(reps[1].out) - 1) = reps[1].out

\* the year and month a match resolves to, era offset included
ResolvedYear(r) ==
    IF r.base # 0 THEN r.base + normalize_number(r.y) - 1 ELSE normalize_number(r.y)
ResolvedMonth(r) == normalize_number(r.mth)

\* the last day of a month as the calendar has it
LastDayOf(year, month) ==
    IF month \in {4, 6, 9, 11} THEN 30
    ELSE IF month # 2 THEN 31
    ELSE IF year % 4 = 0 /\ (year % 100 # 0 \/ year % 400 = 0) THEN 29
    ELSE 28

-----------------------------------------------------------------------------
(* Properties of normalize (specification Spec) *)

\* C1: an abbreviated era-letter date L<n><sep><m><sep><d>, with or without a
\* trailing day marker, is rewritten to the canonical date of
\* (ERA_ABBR_MAP[L] + n - 1, m, d), n being digits or the era-year-1 token.
C1_AbbrDateCanonical ==
    (pc = "done" /\ calls = 1) =>
        \A l \in AbbrLetters, y \in AbbrYearNums, sp \in AbbrSeps, m \in AbbrMonthNums,
           d \in AbbrDayNums \ {MatsuNichi}, e \in AbbrEnds :
            input = AbbrText(l, y, sp, m, d, e) =>
                text = FormatDate(
                           ERA_ABBR_MAP[l] + (IF y = <<"gan">> THEN 1 ELSE IntOf(y)) - 1,
                           IntOf(m), IntOf(d))

\* C2: normalize is total: no call ends in an exception.
C2_NormalizeTotal == pc # "raised"

\* C3: in the era-name pass every match with a day numeral is rewritten to the
\* year ERA_MAP[E] + toInteger(year numeral) - 1 (the base year itself for era
\* year 1), the month toInteger(month numeral) and the day toInteger(day
\* numeral); the match is <E><year>nen<month>gatsu<day>nichi of the folded input.
C3_EraRelativeYear ==
    pc = "era" =>
        /\ FirstInText
        /\ \A i \in DOMAIN reps :
            LET r == reps[i]
                f == Fields(r.out)
            IN  r.d # MatsuNichi =>
                  /\ i = 1 =>
                       SubSeq(HalfWidthText(input), r.start, r.end - 1)
                         = r.era \o r.y \o <<"nen">> \o r.mth \o <<"gatsu">> \o r.d
                  /\ r.era \in ERA_NAMES
                  /\ Len(f) = 3
                  /\ IntOf(f[1]) = ERA_MAP(r.era) + normalize_number(r.y) - 1
                  /\ (r.y \in {<<"gan">>, <<"ichi">>, <<"1">>} => IntOf(f[1]) = ERA_MAP(r.era))
                  /\ IntOf(f[2]) = normalize_number(r.mth)
                  /\ r.d[Len(r.d)] = "nichi"
                  /\ IntOf(f[3]) = normalize_number(SubSeq(r.d, 1, Len(r.d) - 1))

C3_Witness ==
    /\ pc = "era"
    /\ reps # <<>>
    /\ reps[1].era = <<"hei", "sei">>
    /\ reps[1].y = <<"gan">>
    /\ reps[1].d = <<"ichi", "nichi">>
    /\ text = <<"1", "9", "8", "9", "-", "0", "4", "-", "0", "1">>

\* C4: in the three passes that accept the end-of-month token, a match whose day
\* token is that token and whose month resolves into 1..12 is given the last
\* calendar day of the resolved (year, month), era offset included.
C4_EndOfMonth ==
    pc \in {"era", "seireki", "abbr"} =>
        /\ FirstInText
        /\ \A i \in DOMAIN reps :
            LET r == reps[i]
                f == Fields(r.out)
            IN  (r.d = MatsuNichi /\ ResolvedMonth(r) \in 1..12) =>
                  /\ Len(f) = 3
                  /\ IntOf(f[1]) = ResolvedYear(r)
                  /\ IntOf(f[2]) = ResolvedMonth(r)
                  /\ IntOf(f[3]) = LastDayOf(ResolvedYear(r), ResolvedMonth(r))

C4_Witness ==
    /\ pc = "era"
    /\ reps # <<>>
    /\ reps[1].era = <<"mei", "ji">>
    /\ reps[1].y = <<"3", "3">>
    /\ reps[1].d = MatsuNichi
    /\ text = <<"1", "9", "0", "0", "-", "0", "2", "-", "2", "8">>

\* C7: a second call on the result of the first returns it unchanged.
C7_Idempotent == (pc = "done" /\ calls >= 2) => text = prev

\* C8 as stated: every replacement is exactly 4 digits, a hyphen, 2 digits, a
\* hyphen, 2 digits.
C8_ExactWidths ==
    \A i \in DOMAIN reps :
        LET o == reps[i].out
        IN  /\ Len(o) = 10
            /\ o[5] = "-" /\ o[8] = "-"
            /\ \A j \in {1, 2, 3, 4, 6, 7, 9, 10} : o[j] \in AsciiDigits

\* a field of digits zero-padded to w places and no further
PaddedTo(fld, w) ==
    /\ IsAsciiDigits(fld)
    /\ Len(fld) >= w
    /\ (Len(fld) > w => fld[1] # "0")

\* C8 amended: every replacement is year-month-day in ASCII digits, the year
\* zero-padded to 4 places and month and day to 2, a value that needs more
\* digits keeping them all; the delimiter pass always gives 4-2-2.
C8_MinWidths ==
    /\ FirstInText
    /\ \A i \in DOMAIN reps :
        LET f == Fields(reps[i].out)
        IN  /\ Len(f) = 3
            /\ PaddedTo(f[1], 4) /\ PaddedTo(f[2], 2) /\ PaddedTo(f[3], 2)
            /\ reps[i].pass = 4 => Len(reps[i].out) = 10

C8_Witness ==
    /\ pc = "era"
    /\ reps # <<>>
    /\ reps[1].y = <<"9", "9", "9", "9", "9">>
    /\ reps[1].mth = <<"hyaku">>
    /\ Len(Fields(reps[1].out)[1]) = 6
    /\ Len(Fields(reps[1].out)[2]) = 3

\* C9 as stated: the characters outside the matched spans appear unchanged and in
\* order, and a text without a match is returned identical.
C9_PassThroughIdentical ==
    pc = "done" =>
        /\ IsSubseq(Kept(text, origin), input)
        /\ NothingWritten => text = input

\* C9 amended: the characters outside the matched spans appear in order and
\* unchanged but for full-width digits, which come out half-width; a text without
\* a match is returned as its half-width form, identical when it has no
\* full-width digit.
C9_PassThroughFolded ==
    pc = "done" =>
        /\ IsSubseq(Kept(text, origin), HalfWidthText(input))
        /\ Only(Kept(text, origin), InertChars) = Only(input, InertChars)
        /\ NothingWritten => text = HalfWidthText(input)
        /\ (\A i \in DOMAIN input : input[i] \notin {"nen", ".", "/"})
              => text = HalfWidthText(input)
        /\ (NothingWritten /\ \A i \in DOMAIN input : input[i] \notin FwDigits)
              => text = input

C9_Witness ==
    /\ pc = "done"
    /\ calls = 1
    /\ input # <<>>
    /\ input[1] = "F1"
    /\ text[1] = "1"
    /\ origin[1] = 0
    /\ \E i \in DOMAIN origin : origin[i] = 4
    /\ text[Len(text)] = "9"
    /\ Only(text, {"x"}) = <<"x", "x">>

\* C10: no pass matches a span holding a character that an earlier pass of the
\* same call wrote.
C10_PassesIndependent == rematch = FALSE

-----------------------------------------------------------------------------
(* Properties of normalize_number (specification SpecNum) *)

KanjiChars == DOMAIN KANJI_NUM \cup DOMAIN UNIT_SMALL \cup UNIT_LARGE_KEYS

RECURSIVE SumOver(_, _, _)
\* the sum of F[i] for i in lo..hi
SumOver(F, lo, hi) == IF lo > hi THEN 0 ELSE F[lo] + SumOver(F, lo + 1, hi)

\* small() of C5: digit x unit for a digit followed by a small unit, 1 x unit
\* for a small unit no digit precedes, a trailing digit as it is
ClaimedSmall(s) ==
    SumOver([i \in 1..Len(s) |->
                IF s[i] \in DOMAIN UNIT_SMALL
                THEN (IF i > 1 /\ s[i - 1] \in DOMAIN KANJI_NUM
                      THEN KANJI_NUM[s[i - 1]] ELSE 1) * UNIT_SMALL[s[i]]
                ELSE IF i = Len(s) /\ s[i] \in DOMAIN KANJI_NUM THEN KANJI_NUM[s[i]]
                ELSE 0],
            1, Len(s))

RECURSIVE ClaimedValue(_)
\* the magnitude arithmetic of C5
ClaimedValue(s) ==
    IF \A i \in 1..Len(s) : s[i] \notin UNIT_LARGE_KEYS THEN ClaimedSmall(s)
    ELSE LET j == CHOOSE i \in 1..Len(s) :
                     s[i] \in UNIT_LARGE_KEYS /\ \A h \in 1..(i - 1) : s[h] \notin UNIT_LARGE_KEYS
             v == ClaimedSmall(SubSeq(s, 1, j - 1))
         IN  (IF v = 0 THEN 1 ELSE v) * UNIT_LARGE(s[j])
             + ClaimedValue(SubSeq(s, j + 1, Len(s)))

\* C5: for a token of kanji digits and units with at least one unit, the value
\* returned is the magnitude arithmetic of the claim.
C5_MagnitudeArithmetic ==
    (/\ npc = "returned"
     /\ has_unit(tok)
     /\ \A i \in 1..Len(tok) : tok[i] \in KanjiChars)
        => numOut = ClaimedValue(tok)

\* C6: normalize_number never raises, and returns 0 for a token that is empty or
\* holds no numeral character.
C6_NumberNeverRaises ==
    /\ npc # "raised"
    /\ (/\ npc = "returned"
        /\ \A i \in 1..Len(tok) : tok[i] \notin KanjiChars \cup ReDigit \cup {"gan"})
          => numOut = 0

====
